---- MODULE Spec2Model ----
(***************************************************************************)
(* A model of the error library phayes/errors.                             *)
(*                                                                         *)
(* src/errors.go holds two revisions of the chaining code:                 *)
(*   - the pointer revision (lines 1-202): type Error is used through      *)
(*     *Error, nodes live on the heap and have identity;                   *)
(*   - the value revision (lines 204-367): type DefaultError is a          *)
(*     comparable struct used by value behind the Error interface.         *)
(* The variable rev says which revision is built.  Definitions of the      *)
(* pointer revision end in P, those of the value revision in D.            *)
(* src/unnamed/part_000 holds ErrorSet; its definitions start with Set.    *)
(*                                                                         *)
(* Strings are sequences of one-character strings, so that concatenation   *)
(* and trimming are computed, not assumed.                                 *)
(***************************************************************************)
EXTENDS Integers, Sequences, FiniteSets, TLC

VARIABLES rev, heap, annotated, held, ret, mu, set, pc, call, out

chainVars == <<rev, heap, annotated, held, ret>>
setVars == <<mu, set, pc, call, out>>
vars == <<rev, heap, annotated, held, ret, mu, set, pc, call, out>>

----------------------------------------------------------------------------
(* Bounds and input domains *)

\* the most *Error nodes the caller holds (pointer revision)
MaxNodes == 2

\* the most DefaultError values the caller holds (value revision)
MaxHeld == 2

\* texts passed to New
Msgs == {<<"a">>, <<"b">>}

\* texts passed to Wraps / Appends / RWraps
Texts == {<<"t">>}

\* foreign errors the caller holds (ErrStd and ErrStd2 of the tests): identities 1, 2
\* (a third one, used with ErrorSet, has a text that ends in '.')
ExtIds == {1, 2}

ExtMsg(i) == IF i = 1 THEN <<"x">> ELSE IF i = 2 THEN <<"y">> ELSE <<"z", ".">>

\* threads calling into one ErrorSet and the keys they use
Threads == {1, 2}

SetKeys == {"f", "b"}

\* annotation keys and values
Keys == {"k", "j"}

Vals == {<<"1">>, <<"2">>}

\* the separator between the levels of a chain
Sep == <<".", " ">>

\* the separator between an annotation key and its value
KvSep == <<":", " ">>

----------------------------------------------------------------------------
(* fmt.Sprintf, for the formats the callers use: the verb %s is replaced   *)
(* by the next argument, every other character is copied.                  *)

RECURSIVE Sprintf(_, _)
Sprintf(format, args) ==
    IF format = <<>> THEN <<>>
    ELSE IF Len(format) >= 2 /\ format[1] = "%" /\ format[2] = "s" /\ args # <<>>
         THEN Head(args) \o Sprintf(SubSeq(format, 3, Len(format)), Tail(args))
         ELSE <<format[1]>> \o Sprintf(Tail(format), args)

\* the (format, args) pairs the callers pass: one %s with one argument
Formats == {[f |-> <<"%", "s">>, a |-> <<t>>] : t \in Texts}

----------------------------------------------------------------------------
(* References.  An error value of Go is an interface holding nil, a        *)
(* foreign error or a library error.                                       *)

NilRef == [k |-> "nil"]

\* a foreign error the caller holds
Ext(i) == [k |-> "ext", i |-> i]

\* the errors the threads add to an ErrorSet
SetErrs == {Ext(1), Ext(3)}

\* the *errorString that errors.New(s) / fmt.Errorf allocate inside the
\* library: no caller ever holds the pointer, only its text is observable
StdNew(s) == [k |-> "new", m |-> s]

\* a *Error the caller holds: heap[i]
Node(i) == [k |-> "node", i |-> i]

\* a nil annotation map, and an allocated one
NilAnno == [nil |-> TRUE, kv |-> <<>>]

MkAnno(kv) == [nil |-> FALSE, kv |-> kv]

\* a *Error allocated inside a library call and not (yet) held by the caller
Tmp(err, inner, anno) == [k |-> "tmp", err |-> err, inner |-> inner, anno |-> anno]

\* dynamic type test: err.(*Error)
IsErrorP(r) == r.k \in {"node", "tmp"}

\* the fields of the *Error behind r
Obj(h, r) ==
    IF r.k = "node" THEN h[r.i]
    ELSE [err |-> r.err, inner |-> r.inner, anno |-> r.anno]

\* Go's == on two error interfaces of the pointer revision: same dynamic
\* type and same pointer.  A pointer allocated inside the call is equal to
\* no other pointer.
SamePtr(a, b) == a.k \in {"nil", "ext", "node"} /\ a = b

----------------------------------------------------------------------------
(* The pointer revision: src/errors.go lines 1-202.                        *)
(* A call that walks a chain with a cycle never returns (the recursion     *)
(* overflows the stack): the walks carry fuel, and a walk that runs out    *)
(* of fuel reports ok = FALSE.  A chain without a cycle has at most        *)
(* Len(h) nodes and one wrapper allocated by Inner().                      *)

Fuel(h) == Len(h) + 2

\* (e *Error) Inner()
InnerP(h, r) ==
    LET o == Obj(h, r) IN
    IF o.inner = NilRef THEN NilRef
    ELSE IF IsErrorP(o.inner) THEN o.inner
    ELSE Tmp(o.inner, NilRef, NilAnno)

\* (e *Error) Base()
BaseP(h, r) ==
    LET o == Obj(h, r) IN
    IF o.inner = NilRef THEN r
    ELSE Tmp(o.err, NilRef, o.anno)

\* the entries of an annotation map (a nil map reads as empty)
Entries(anno) == IF anno.nil THEN <<>> ELSE anno.kv

\* (e *Error) GetAnnotations(): the map returned, and the heap it leaves.
\* When e.anno is not nil the returned map IS e.anno, so the inner keys
\* are stored into the node's own map.
RECURSIVE GetAnnotationsP(_, _, _)
GetAnnotationsP(h, r, fuel) ==
    IF fuel = 0 THEN [ok |-> FALSE, h |-> h, a |-> <<>>]
    ELSE
      LET innerError == InnerP(h, r) IN
      IF innerError = NilRef
      THEN [ok |-> TRUE, h |-> h, a |-> Entries(Obj(h, r).anno)]
      ELSE
        LET rec == GetAnnotationsP(h, innerError, fuel - 1)
            o == Obj(rec.h, r)
            own == Entries(o.anno)
            merged == [key \in (DOMAIN own) \cup (DOMAIN rec.a) |->
                          IF key \in DOMAIN own THEN own[key] ELSE rec.a[key]]
        IN IF ~rec.ok THEN [ok |-> FALSE, h |-> h, a |-> <<>>]
           ELSE [ok |-> TRUE,
                 h |-> IF r.k = "node" /\ ~o.anno.nil
                       THEN [rec.h EXCEPT ![r.i].anno = MkAnno(merged)]
                       ELSE rec.h,
                 a |-> merged]

\* the texts "key: value. key: value. " that ranging over the map can
\* produce: Go's map iteration order is not specified
RECURSIVE AnnoTexts(_, _)
AnnoTexts(a, D) ==
    IF D = {} THEN {<<>>}
    ELSE UNION {{<<key>> \o KvSep \o Sprintf(<<"%", "s">>, <<a[key]>>) \o Sep \o rest :
                    rest \in AnnoTexts(a, D \ {key})} : key \in D}

\* e.Error() for any non-nil error e, and (e *Error) Error(): the set of
\* texts the call can return and the heap it leaves
RECURSIVE RenderP(_, _, _)
RECURSIVE ErrorP(_, _, _)
RenderP(h, e, fuel) ==
    IF IsErrorP(e) THEN ErrorP(h, e, fuel)
    ELSE [ok |-> TRUE, h |-> h, s |-> {IF e.k = "ext" THEN ExtMsg(e.i) ELSE e.m}]

\* (e *Error) Message(): e.err.Error()
MessageP(h, r, fuel) ==
    IF fuel = 0 THEN [ok |-> FALSE, h |-> h, s |-> {}]
    ELSE RenderP(h, Obj(h, r).err, fuel - 1)

ErrorP(h, r, fuel) ==
    IF fuel = 0 THEN [ok |-> FALSE, h |-> h, s |-> {}]
    ELSE
      LET m == MessageP(h, r, fuel)
          o == Obj(h, r)
          in == IF o.inner = NilRef THEN [ok |-> TRUE, h |-> m.h, s |-> {<<>>}]
                ELSE RenderP(m.h, o.inner, fuel - 1)
          msg == IF o.inner = NilRef THEN m.s
                 ELSE {a \o Sep \o b : a \in m.s, b \in in.s}
          g == GetAnnotationsP(in.h, r, Fuel(h))
      IN IF ~m.ok \/ ~in.ok \/ ~g.ok THEN [ok |-> FALSE, h |-> h, s |-> {}]
         ELSE [ok |-> TRUE,
               h |-> g.h,
               s |-> IF DOMAIN g.a = {} THEN msg
                     ELSE {b \o Sep \o t : b \in msg, t \in AnnoTexts(g.a, DOMAIN g.a)}]

\* (e *Error) Cause()
RECURSIVE CauseP(_, _, _)
CauseP(h, r, fuel) ==
    IF fuel = 0 THEN [ok |-> FALSE, v |-> NilRef]
    ELSE IF InnerP(h, r) = NilRef THEN [ok |-> TRUE, v |-> r]
    ELSE CauseP(h, InnerP(h, r), fuel - 1)

\* Equal(e1, e2)
EqualP(h, e1, e2) ==
    IF SamePtr(e1, e2) THEN TRUE
    ELSE
      LET e1ok == IsErrorP(e1)
          e2ok == IsErrorP(e2)
      IN CASE e1ok /\ e2ok -> SamePtr(BaseP(h, e2), BaseP(h, e1))
           [] e1ok /\ ~e2ok -> SamePtr(BaseP(h, e1), e2)
           [] ~e1ok /\ e2ok -> SamePtr(BaseP(h, e2), e1)
           [] ~e1ok /\ ~e2ok -> SamePtr(e1, e2)

\* IsA(outerErr, innerErr)
RECURSIVE IsAP(_, _, _, _)
IsAP(h, outerErr, innerErr, fuel) ==
    IF fuel = 0 THEN [ok |-> FALSE, v |-> FALSE]
    ELSE IF EqualP(h, outerErr, innerErr) THEN [ok |-> TRUE, v |-> TRUE]
    ELSE IF IsErrorP(outerErr) /\ InnerP(h, outerErr) # NilRef
         THEN IsAP(h, InnerP(h, outerErr), innerErr, fuel - 1)
         ELSE [ok |-> TRUE, v |-> FALSE]

\* the *Error that New(s) allocates
NewObjP(s) == Tmp(StdNew(s), NilRef, NilAnno)

\* the caller keeps the *Error t: it becomes the next node of the heap
Alloc(h, t) ==
    [h |-> Append(h, [err |-> t.err, inner |-> t.inner, anno |-> t.anno]),
     v |-> Node(Len(h) + 1)]

\* New(s)
NewP(h, s) == Alloc(h, NewObjP(s))

\* Newf(format, args...)
NewfP(h, format, args) == Alloc(h, Tmp(StdNew(Sprintf(format, args)), NilRef, NilAnno))

\* (e *Error) Wrap(err): stores err into the receiver and returns the receiver
WrapP(h, e, err) == [h |-> [h EXCEPT ![e.i].inner = err], v |-> e]

\* (e *Error) Wraps(str)
WrapsP(h, e, str) == WrapP(h, e, StdNew(str))

\* (e *Error) Wrapf(format, args...)
WrapfP(h, e, format, args) == WrapP(h, e, StdNew(Sprintf(format, args)))

\* (e *Error) Append(err): err becomes the outer error, the receiver its inner
AppendP(h, e, err) ==
    IF IsErrorP(err) THEN WrapP(h, err, e)
    ELSE Alloc(h, Tmp(err, e, NilAnno))

\* (e *Error) Appends(str)
AppendsP(h, e, str) == Alloc(h, Tmp(NewObjP(str), e, NilAnno))

\* (e *Error) Appendf(format, args...)
AppendfP(h, e, format, args) ==
    Alloc(h, Tmp(Tmp(StdNew(Sprintf(format, args)), NilRef, NilAnno), e, NilAnno))

\* a Go map after m[key] = value
Put(m, key, value) == [x \in (DOMAIN m) \cup {key} |-> IF x = key THEN value ELSE m[x]]

\* (e *Error) Annotate(key, value)
AnnotateP(h, e, key, value) ==
    [h EXCEPT ![e.i].anno = MkAnno(Put(Entries(h[e.i].anno), key, value))]

----------------------------------------------------------------------------
(* The calls of the pointer revision.  ret is what the last call was and   *)
(* what it returned; a call that never returns is fatal to the program.    *)
(* annotated is a history variable: annotated[i] holds the key/value pairs *)
(* that Annotate calls have set on node i, whatever else the node's map    *)
(* has come to hold.                                                       *)

Ret(op, a, b, res) == [op |-> op, a |-> a, b |-> b, res |-> res, fatal |-> FALSE]

Fatal(op, a, b) == [op |-> op, a |-> a, b |-> b, res |-> NilRef, fatal |-> TRUE]

\* the *Error values the caller holds, and the errors it can pass
NodesP(h) == {Node(i) : i \in 1..Len(h)}

ArgsP(h) == NodesP(h) \cup {Ext(i) : i \in ExtIds}

RunningP == rev = "ptr" /\ ~ret.fatal

\* a call that returns a new or changed heap and a value
ReturnP(op, a, b, r) ==
    /\ heap' = r.h
    /\ annotated' = IF Len(r.h) > Len(heap) THEN Append(annotated, <<>>) ELSE annotated
    /\ ret' = Ret(op, a, b, r.v)
    /\ UNCHANGED <<rev, held, mu, set, pc, call, out>>

\* a call that only reads
ReadP(op, a, b, r) ==
    /\ ret' = IF r.ok THEN Ret(op, a, b, r.v) ELSE Fatal(op, a, b)
    /\ UNCHANGED <<rev, heap, annotated, held, mu, set, pc, call, out>>

CallNewP ==
    /\ RunningP /\ Len(heap) < MaxNodes
    /\ \E s \in Msgs : ReturnP("New", NilRef, NilRef, NewP(heap, s))

CallNewfP ==
    /\ RunningP /\ Len(heap) < MaxNodes
    /\ \E f \in Formats : ReturnP("Newf", NilRef, NilRef, NewfP(heap, f.f, f.a))

CallWrapP ==
    /\ RunningP
    /\ \E e \in NodesP(heap), err \in ArgsP(heap) :
          ReturnP("Wrap", e, err, WrapP(heap, e, err))

CallWrapsP ==
    /\ RunningP
    /\ \E e \in NodesP(heap), str \in Texts :
          ReturnP("Wraps", e, StdNew(str), WrapsP(heap, e, str))

CallWrapfP ==
    /\ RunningP
    /\ \E e \in NodesP(heap), f \in Formats :
          ReturnP("Wrapf", e, StdNew(Sprintf(f.f, f.a)), WrapfP(heap, e, f.f, f.a))

CallAppendP ==
    /\ RunningP
    /\ \E e \in NodesP(heap), err \in ArgsP(heap) :
          /\ IsErrorP(err) \/ Len(heap) < MaxNodes
          /\ ReturnP("Append", e, err, AppendP(heap, e, err))

CallAppendsP ==
    /\ RunningP /\ Len(heap) < MaxNodes
    /\ \E e \in NodesP(heap), str \in Texts :
          ReturnP("Appends", e, StdNew(str), AppendsP(heap, e, str))

CallAppendfP ==
    /\ RunningP /\ Len(heap) < MaxNodes
    /\ \E e \in NodesP(heap), f \in Formats :
          ReturnP("Appendf", e, StdNew(Sprintf(f.f, f.a)), AppendfP(heap, e, f.f, f.a))

CallMessageP ==
    /\ RunningP
    /\ \E e \in NodesP(heap) :
          LET m == MessageP(heap, e, Fuel(heap)) IN
          \E t \in m.s : ReadP("Message", e, NilRef, [ok |-> TRUE, v |-> t])

CallInnerP ==
    /\ RunningP
    /\ \E e \in NodesP(heap) :
          ReadP("Inner", e, NilRef, [ok |-> TRUE, v |-> InnerP(heap, e)])

CallBaseP ==
    /\ RunningP
    /\ \E e \in NodesP(heap) :
          ReadP("Base", e, NilRef, [ok |-> TRUE, v |-> BaseP(heap, e)])

CallCauseP ==
    /\ RunningP
    /\ \E e \in NodesP(heap) :
          ReadP("Cause", e, NilRef, CauseP(heap, e, Fuel(heap)))

CallEqualP ==
    /\ RunningP
    /\ \E e1 \in ArgsP(heap), e2 \in ArgsP(heap) :
          ReadP("Equal", e1, e2, [ok |-> TRUE, v |-> EqualP(heap, e1, e2)])

CallIsAP ==
    /\ RunningP
    /\ \E e1 \in ArgsP(heap), e2 \in ArgsP(heap) :
          ReadP("IsA", e1, e2, IsAP(heap, e1, e2, Fuel(heap)))

\* Error() and GetAnnotations() also store into annotation maps
CallErrorP ==
    /\ RunningP
    /\ \E e \in NodesP(heap) :
          LET r == ErrorP(heap, e, Fuel(heap)) IN
          IF r.ok
          THEN \E t \in r.s : ReturnP("Error", e, NilRef, [h |-> r.h, v |-> t])
          ELSE /\ ret' = Fatal("Error", e, NilRef)
               /\ UNCHANGED <<rev, heap, annotated, held, mu, set, pc, call, out>>

CallGetAnnotationsP ==
    /\ RunningP
    /\ \E e \in NodesP(heap) :
          LET r == GetAnnotationsP(heap, e, Fuel(heap)) IN
          IF r.ok
          THEN ReturnP("GetAnnotations", e, NilRef, [h |-> r.h, v |-> r.a])
          ELSE /\ ret' = Fatal("GetAnnotations", e, NilRef)
               /\ UNCHANGED <<rev, heap, annotated, held, mu, set, pc, call, out>>

CallAnnotateP ==
    /\ RunningP
    /\ \E e \in NodesP(heap), key \in Keys, value \in Vals :
          /\ heap' = AnnotateP(heap, e, key, value)
          /\ annotated' = [annotated EXCEPT ![e.i] = Put(@, key, value)]
          /\ ret' = Ret("Annotate", e, NilRef, [key |-> key, value |-> value])
          /\ UNCHANGED <<rev, held, mu, set, pc, call, out>>

----------------------------------------------------------------------------
(* The value revision: src/errors.go lines 204-367.  A DefaultError is a   *)
(* struct value: two of them are == when their msg and inner are.          *)

\* DefaultError{msg: msg, inner: inner}
DefaultError(msg, inner) == [k |-> "val", msg |-> msg, inner |-> inner]

\* dynamic type test: err.(Error)
IsErrorD(e) == e.k = "val"

\* (e DefaultError) Message()
MessageD(e) == e.msg

\* (e DefaultError) Inner()
InnerD(e) == e.inner

\* Base() that forgets to drop the inner error
BaseD_KeepsInner(e) == e

\* (e DefaultError) Base()
BaseD(e) == [e EXCEPT !.inner = NilRef]

\* (e DefaultError) Wrap(err)
WrapMethodD(e, err) == [e EXCEPT !.inner = err]

\* (e DefaultError) Error(), and Error() of a foreign error
RECURSIVE ErrorD(_)
ErrorD(e) ==
    IF ~IsErrorD(e) THEN ExtMsg(e.i)
    ELSE IF e.inner # NilRef THEN MessageD(e) \o Sep \o ErrorD(e.inner)
    ELSE MessageD(e)

\* New(s)
NewD(s) == DefaultError(s, NilRef)

\* Newf(format, args...)
NewfD(format, args) == DefaultError(Sprintf(format, args), NilRef)

Panic == [k |-> "panic"]

\* Wrap that builds a root from a foreign outer error instead of panicking
WrapD_Fallback(innerErr, outerErr) ==
    IF IsErrorD(outerErr) THEN WrapMethodD(outerErr, innerErr)
    ELSE DefaultError(ErrorD(outerErr), innerErr)

\* Wrap(innerErr, outerErr)
WrapD(innerErr, outerErr) ==
    IF IsErrorD(outerErr) THEN WrapMethodD(outerErr, innerErr) ELSE Panic

\* Wraps(err, outer)
WrapsD(err, outer) == DefaultError(outer, err)

\* Wrapf(err, format, args...)
WrapfD(err, format, args) == DefaultError(Sprintf(format, args), err)

\* RWraps(outerErr, inner)
RWrapsD(outerErr, inner) ==
    IF IsErrorD(outerErr) THEN WrapMethodD(outerErr, NewD(inner)) ELSE Panic

\* RWrapf(outerErr, format, args...)
RWrapfD(outerErr, format, args) ==
    IF IsErrorD(outerErr) THEN WrapMethodD(outerErr, NewfD(format, args)) ELSE Panic

\* Equal(e1, e2)
EqualD(e1, e2) ==
    IF e1 = e2 THEN TRUE
    ELSE IF ~IsErrorD(e1) /\ ~IsErrorD(e2) THEN FALSE
    ELSE IF IsErrorD(e1) /\ IsErrorD(e2) THEN BaseD(e2) = BaseD(e1)
    ELSE FALSE

\* IsA(outerErr, innerErr)
RECURSIVE IsAD(_, _)
IsAD(outerErr, innerErr) ==
    IF EqualD(outerErr, innerErr) THEN TRUE
    ELSE IF IsErrorD(outerErr) /\ InnerD(outerErr) # NilRef
         THEN IsAD(InnerD(outerErr), innerErr)
         ELSE FALSE

----------------------------------------------------------------------------
(* The calls of the value revision.  held is the set of DefaultError       *)
(* values the caller has been returned and still holds.                    *)

ArgsD(hs) == hs \cup {Ext(i) : i \in ExtIds}

RunningD == rev = "val"

\* a call that returns the error v (a panic returns nothing)
ReturnD(op, a, b, v) ==
    /\ held' = IF v = Panic THEN held ELSE held \cup {v}
    /\ ret' = Ret(op, a, b, v)
    /\ UNCHANGED <<rev, heap, annotated, mu, set, pc, call, out>>

ReadD(op, a, b, v) ==
    /\ ret' = Ret(op, a, b, v)
    /\ UNCHANGED <<rev, heap, annotated, held, mu, set, pc, call, out>>

Room == Cardinality(held) < MaxHeld

CallNewD ==
    /\ RunningD /\ Room
    /\ \E s \in Msgs : ReturnD("New", NilRef, NilRef, NewD(s))

CallNewfD ==
    /\ RunningD /\ Room
    /\ \E f \in Formats : ReturnD("Newf", NilRef, NilRef, NewfD(f.f, f.a))

CallWrapD ==
    /\ RunningD /\ Room
    /\ \E i \in ArgsD(held), o \in ArgsD(held) : ReturnD("Wrap", i, o, WrapD(i, o))

CallWrapsD ==
    /\ RunningD /\ Room
    /\ \E e \in ArgsD(held), s \in Texts : ReturnD("Wraps", e, NilRef, WrapsD(e, s))

CallWrapfD ==
    /\ RunningD /\ Room
    /\ \E e \in ArgsD(held), f \in Formats : ReturnD("Wrapf", e, NilRef, WrapfD(e, f.f, f.a))

CallRWrapsD ==
    /\ RunningD /\ Room
    /\ \E o \in ArgsD(held), s \in Texts : ReturnD("RWraps", NilRef, o, RWrapsD(o, s))

CallRWrapfD ==
    /\ RunningD /\ Room
    /\ \E o \in ArgsD(held), f \in Formats : ReturnD("RWrapf", NilRef, o, RWrapfD(o, f.f, f.a))

CallMessageD ==
    /\ RunningD
    /\ \E e \in held : ReadD("Message", e, NilRef, MessageD(e))

CallInnerD ==
    /\ RunningD
    /\ \E e \in held : ReadD("Inner", e, NilRef, InnerD(e))

CallBaseD ==
    /\ RunningD
    /\ \E e \in held : ReadD("Base", e, NilRef, BaseD(e))

CallErrorD ==
    /\ RunningD
    /\ \E e \in held : ReadD("Error", e, NilRef, ErrorD(e))

CallEqualD ==
    /\ RunningD
    /\ \E e1 \in ArgsD(held), e2 \in ArgsD(held) : ReadD("Equal", e1, e2, EqualD(e1, e2))

CallIsAD ==
    /\ RunningD
    /\ \E e1 \in ArgsD(held), e2 \in ArgsD(held) : ReadD("IsA", e1, e2, IsAD(e1, e2))

----------------------------------------------------------------------------
(* ErrorSet: src/unnamed/part_000.  Every method locks e.mu, runs its      *)
(* body, and unlocks on return (defer).  A thread is idle, waiting for the *)
(* lock ("lock"), holding it before the body ran ("body"), or holding it   *)
(* with the body done and the deferred Unlock still to run ("unlock").     *)

\* &ErrorSet{}: the map is nil until the first Add
NilSet == [nil |-> TRUE, kv |-> <<>>]

NoCall == [op |-> "none", key |-> "", err |-> NilRef]

NoOut == [op |-> "none", key |-> "", err |-> NilRef, res |-> NilRef]

\* strings.TrimRight(s, cutset): drops every trailing character of cutset
RECURSIVE TrimRight(_, _)
TrimRight(s, cutset) ==
    IF s # <<>> /\ s[Len(s)] \in cutset
    THEN TrimRight(SubSeq(s, 1, Len(s) - 1), cutset)
    ELSE s

\* err.Error() of a stored error
SetErrText(err) == ExtMsg(err.i)

\* the texts the loop of Error() can build from the keys D still to visit
RECURSIVE SetLoopTexts(_, _)
SetLoopTexts(kv, D) ==
    IF D = {} THEN {<<>>}
    ELSE UNION {{<<str>> \o KvSep \o SetErrText(kv[str]) \o Sep \o rest :
                    rest \in SetLoopTexts(kv, D \ {str})} : str \in D}

\* (e *ErrorSet) Error(): the texts it can return
SetError(s) ==
    IF s.nil \/ DOMAIN s.kv = {} THEN {<<>>}
    ELSE {TrimRight(output, {".", " "}) : output \in SetLoopTexts(s.kv, DOMAIN s.kv)}

\* a Lock that does not wait for the holder
SetLock_NoWait(t) ==
    /\ pc[t] = "lock"
    /\ mu' = t
    /\ pc' = [pc EXCEPT ![t] = "body"]
    /\ UNCHANGED <<set, call, out, rev, heap, annotated, held, ret>>

\* Add that keeps the first error of a key
SetAdd_FirstWins(s, key, err) ==
    LET m == IF s.nil THEN <<>> ELSE s.kv
    IN [nil |-> FALSE,
        kv |-> [x \in (DOMAIN m) \cup {key} |-> IF x \in DOMAIN m THEN m[x] ELSE err]]

\* (e *ErrorSet) Add(key, err): the map it leaves
SetAdd(s, key, err) ==
    LET m == IF s.nil THEN <<>> ELSE s.kv
    IN [nil |-> FALSE,
        kv |-> [x \in (DOMAIN m) \cup {key} |-> IF x = key THEN err ELSE m[x]]]

\* (e *ErrorSet) Get(key)
SetGet(s, key) ==
    IF s.nil THEN NilRef
    ELSE IF key \in DOMAIN s.kv THEN s.kv[key] ELSE NilRef

\* (e *ErrorSet) GetAll(): a copy of the map
SetGetAll(s) ==
    IF s.nil THEN <<>>
    ELSE [k \in DOMAIN s.kv |-> s.kv[k]]

\* (e *ErrorSet) HasErrors()
SetHasErrors(s) ==
    IF s.nil \/ Cardinality(DOMAIN s.kv) = 0 THEN FALSE ELSE TRUE

\* a thread calls a method of the set
SetCall(t) ==
    /\ pc[t] = "idle"
    /\ \E c \in {[op |-> "Add", key |-> k, err |-> e] : k \in SetKeys, e \in SetErrs}
            \cup {[op |-> "Get", key |-> k, err |-> NilRef] : k \in SetKeys}
            \cup {[op |-> o, key |-> "", err |-> NilRef] : o \in {"GetAll", "HasErrors", "Error"}} :
          call' = [call EXCEPT ![t] = c]
    /\ pc' = [pc EXCEPT ![t] = "lock"]
    /\ out' = [out EXCEPT ![t] = NoOut]
    /\ UNCHANGED <<mu, set, rev, heap, annotated, held, ret>>

\* e.mu.Lock()
SetLock(t) ==
    /\ pc[t] = "lock"
    /\ mu = 0
    /\ mu' = t
    /\ pc' = [pc EXCEPT ![t] = "body"]
    /\ UNCHANGED <<set, call, out, rev, heap, annotated, held, ret>>

SetBody(t, op, s, res) ==
    /\ pc[t] = "body"
    /\ call[t].op = op
    /\ set' = s
    /\ out' = [out EXCEPT ![t] = [op |-> op, key |-> call[t].key,
                                err |-> call[t].err, res |-> res]]
    /\ pc' = [pc EXCEPT ![t] = "unlock"]
    /\ UNCHANGED <<mu, call, rev, heap, annotated, held, ret>>

SetAddBody(t) == SetBody(t, "Add", SetAdd(set, call[t].key, call[t].err), NilRef)

\* Add, statement by statement: if e.set == nil
SetAddCheck(t) ==
    /\ pc[t] = "body"
    /\ call[t].op = "Add"
    /\ pc' = [pc EXCEPT ![t] = IF set.nil THEN "alloc" ELSE "store"]
    /\ UNCHANGED <<mu, set, call, out, rev, heap, annotated, held, ret>>

\* e.set = map[string]error{}
SetAddAlloc(t) ==
    /\ pc[t] = "alloc"
    /\ set' = [nil |-> FALSE, kv |-> <<>>]
    /\ pc' = [pc EXCEPT ![t] = "store"]
    /\ UNCHANGED <<mu, call, out, rev, heap, annotated, held, ret>>

\* e.set[key] = err
SetAddStore(t) ==
    /\ pc[t] = "store"
    /\ set' = [set EXCEPT !.kv = [x \in (DOMAIN set.kv) \cup {call[t].key} |->
                                    IF x = call[t].key THEN call[t].err ELSE set.kv[x]]]
    /\ out' = [out EXCEPT ![t] = [op |-> "Add", key |-> call[t].key,
                                err |-> call[t].err, res |-> NilRef]]
    /\ pc' = [pc EXCEPT ![t] = "unlock"]
    /\ UNCHANGED <<mu, call, rev, heap, annotated, held, ret>>

SetGetBody(t) == SetBody(t, "Get", set, SetGet(set, call[t].key))

SetGetAllBody(t) == SetBody(t, "GetAll", set, SetGetAll(set))

SetHasErrorsBody(t) == SetBody(t, "HasErrors", set, SetHasErrors(set))

SetErrorBody(t) == \E text \in SetError(set) : SetBody(t, "Error", set, text)

\* *ErrorSet has the method Error() and so is an error itself: the set, as
\* an error value
SelfRef == [k |-> "set"]

\* the set holds itself as an entry
HasSelf(s) == ~s.nil /\ \E k \in DOMAIN s.kv : s.kv[k] = SelfRef

\* a thread calls Add(key, e) with e the set itself
SetCallSelf(t) ==
    /\ pc[t] = "idle"
    /\ \E k \in SetKeys :
          call' = [call EXCEPT ![t] = [op |-> "Add", key |-> k, err |-> SelfRef]]
    /\ pc' = [pc EXCEPT ![t] = "lock"]
    /\ out' = [out EXCEPT ![t] = NoOut]
    /\ UNCHANGED <<mu, set, rev, heap, annotated, held, ret>>

\* Error() on a set that holds itself: the loop calls err.Error() on every
\* entry with e.mu held, and for the entry that is the set this is Error()
\* of the same set, which starts with e.mu.Lock()
SetErrorNested(t) ==
    /\ pc[t] = "body"
    /\ call[t].op = "Error"
    /\ HasSelf(set)
    /\ pc' = [pc EXCEPT ![t] = "lock"]
    /\ UNCHANGED <<mu, set, call, out, rev, heap, annotated, held, ret>>

\* the deferred e.mu.Unlock(), and the return
SetUnlock(t) ==
    /\ pc[t] = "unlock"
    /\ mu' = 0
    /\ pc' = [pc EXCEPT ![t] = "idle"]
    /\ call' = [call EXCEPT ![t] = NoCall]
    /\ UNCHANGED <<set, out, rev, heap, annotated, held, ret>>

----------------------------------------------------------------------------
(* Specifications *)

NoRet == Ret("none", NilRef, NilRef, NilRef)

\* no ErrorSet call has been made
SetFresh ==
    /\ mu = 0
    /\ set = NilSet
    /\ pc = [t \in Threads |-> "idle"]
    /\ call = [t \in Threads |-> NoCall]
    /\ out = [t \in Threads |-> NoOut]

\* no chain call has been made
ChainFresh ==
    /\ heap = <<>>
    /\ annotated = <<>>
    /\ held = {}
    /\ ret = NoRet

\* the chaining code, in either revision
Init ==
    /\ rev \in {"ptr", "val"}
    /\ ChainFresh
    /\ SetFresh

NextP ==
    \/ CallNewP \/ CallNewfP
    \/ CallWrapP \/ CallWrapsP \/ CallWrapfP
    \/ CallAppendP \/ CallAppendsP \/ CallAppendfP
    \/ CallMessageP \/ CallInnerP \/ CallBaseP \/ CallCauseP
    \/ CallEqualP \/ CallIsAP \/ CallErrorP

NextD ==
    \/ CallNewD \/ CallNewfD
    \/ CallWrapD \/ CallWrapsD \/ CallWrapfD
    \/ CallRWrapsD \/ CallRWrapfD
    \/ CallMessageD \/ CallInnerD \/ CallBaseD \/ CallErrorD
    \/ CallEqualD \/ CallIsAD

Next == NextP \/ NextD

Spec == Init /\ [][Next]_vars

\* the calls that build chains, in either revision
NextBuild ==
    \/ CallNewP \/ CallNewfP
    \/ CallWrapP \/ CallWrapsP \/ CallWrapfP
    \/ CallAppendP \/ CallAppendsP \/ CallAppendfP
    \/ CallNewD \/ CallNewfD
    \/ CallWrapD \/ CallWrapsD \/ CallWrapfD
    \/ CallRWrapsD \/ CallRWrapfD

SpecBuild == Init /\ [][NextBuild]_vars

\* the annotations of the pointer revision: a chain is built, and from the
\* first Annotate on it is only annotated and read
InitAnno ==
    /\ rev = "ptr"
    /\ ChainFresh
    /\ SetFresh

NothingAnnotated == \A i \in 1..Len(heap) : heap[i].anno.nil

NextAnno ==
    \/ NothingAnnotated /\ CallNewP
    \/ NothingAnnotated /\ CallWrapP
    \/ CallAnnotateP
    \/ CallGetAnnotationsP
    \/ CallErrorP

SpecAnno == InitAnno /\ [][NextAnno]_vars

\* ErrorSet
InitSet ==
    /\ rev = "ptr"
    /\ ChainFresh
    /\ SetFresh

NextSet ==
    \E t \in Threads :
        \/ SetCall(t)
        \/ SetLock(t)
        \/ SetAddBody(t)
        \/ SetGetBody(t)
        \/ SetGetAllBody(t)
        \/ SetHasErrorsBody(t)
        \/ SetErrorBody(t)
        \/ SetUnlock(t)

SpecSet == InitSet /\ [][NextSet]_vars

\* ErrorSet under concurrent Adds: every thread calls Add once, with a key
\* of its own, on a set whose map is not allocated; GetAll is called when
\* all of them have returned
RaceAdd(t) ==
    /\ out[t].op = "none"
    /\ SetCall(t)
    /\ call'[t].op = "Add"
    /\ \A u \in Threads \ {t} : call[u].key # call'[t].key /\ out[u].key # call'[t].key

RaceGetAll(t) ==
    /\ \A u \in Threads : out[u].op = "Add" /\ pc[u] = "idle"
    /\ SetCall(t)
    /\ call'[t].op = "GetAll"

NextRace ==
    \E t \in Threads :
        \/ RaceAdd(t)
        \/ RaceGetAll(t)
        \/ SetLock(t)
        \/ SetAddCheck(t)
        \/ SetAddAlloc(t)
        \/ SetAddStore(t)
        \/ SetGetAllBody(t)
        \/ SetUnlock(t)

SpecRace == InitSet /\ [][NextRace]_vars

\* ErrorSet with the set itself among the errors stored
StepSelf(t) ==
    \/ SetAddBody(t)
    \/ SetGetBody(t)
    \/ SetGetAllBody(t)
    \/ SetHasErrorsBody(t)
    \/ ~HasSelf(set) /\ SetErrorBody(t)
    \/ SetErrorNested(t)
    \/ SetUnlock(t)

NextSelf ==
    \E t \in Threads :
        \/ SetCall(t)
        \/ SetCallSelf(t)
        \/ SetLock(t)
        \/ StepSelf(t)

\* a thread that holds the lock goes on running, and sync.Mutex hands the
\* lock to a thread that keeps waiting for it (starvation mode)
FairSelf == \A t \in Threads : WF_vars(StepSelf(t)) /\ SF_vars(SetLock(t))

SpecSelf == InitSet /\ [][NextSelf]_vars /\ FairSelf

----------------------------------------------------------------------------
(* Claims *)

WrapOpsP == {"Wrap", "Wraps", "Wrapf", "Append", "Appends", "Appendf"}

\* C1: Wrap, Wraps, Wrapf, Append, Appends and Appendf never change a node
\* that existed before the call (receiver and argument included), and the
\* node they return is a fresh one, distinct from all of them.  In the value
\* revision every value held before the call is still held.
C1_WrapNeverMutates ==
    [][/\ (rev = "ptr" /\ ret'.op \in WrapOpsP) =>
              /\ \A i \in 1..Len(heap) : heap'[i] = heap[i]
              /\ ret'.res \notin NodesP(heap)
       /\ rev = "val" => held \subseteq held']_vars

\* C2: two nodes produced by two separate calls New(m) are not Equal, in
\* either argument order.  Pointer revision: any two distinct nodes whose
\* own text is the same.  Value revision: the node New(m) just returned and
\* the node another call New(m) returns.
C2_NewNotEqual ==
    /\ rev = "ptr" =>
          \A i \in 1..Len(heap), j \in 1..Len(heap) :
              (i # j /\ heap[i].err = heap[j].err /\ heap[i].err.k = "new") =>
                  /\ ~EqualP(heap, Node(i), Node(j))
                  /\ ~EqualP(heap, Node(j), Node(i))
    /\ (rev = "val" /\ ret.op = "New") =>
          LET other == NewD(MessageD(ret.res)) IN
          /\ ~EqualD(ret.res, other)
          /\ ~EqualD(other, ret.res)

\* Equal in both argument orders (pointer revision)
C3_BothWays(h, x, y) == EqualP(h, x, y) /\ EqualP(h, y, x)

C3_SentinelP(s, r) ==
    /\ C3_BothWays(heap, r, s)
    /\ \A x \in ArgsP(heap) :
          /\ LET w == WrapP(heap, r, x) IN C3_BothWays(w.h, w.v, s)
          /\ LET w == WrapsP(heap, r, <<"t">>) IN C3_BothWays(w.h, w.v, s)
          /\ IsErrorP(x) => LET w == AppendP(heap, x, r) IN C3_BothWays(w.h, w.v, s)

C3_SentinelD(s, r) ==
    /\ EqualD(r, s) /\ EqualD(s, r)
    /\ \A x \in ArgsD(held) :
          /\ EqualD(WrapD(x, r), s) /\ EqualD(s, WrapD(x, r))
          /\ EqualD(RWrapsD(r, <<"t">>), s) /\ EqualD(s, RWrapsD(r, <<"t">>))

\* C3: the result r of wrapping an error beneath a chain node s (s outer)
\* is Equal to s in both argument orders, and so is every chain obtained by
\* wrapping or appending once more beneath r while s stays the outermost base.
C3_SentinelStaysEqual ==
    /\ (rev = "ptr" /\ ret.op \in {"Wrap", "Wraps", "Wrapf"}) => C3_SentinelP(ret.a, ret.res)
    /\ (rev = "ptr" /\ ret.op = "Append" /\ IsErrorP(ret.b)) => C3_SentinelP(ret.b, ret.res)
    /\ (rev = "val" /\ ret.op \in {"Wrap", "RWraps", "RWrapf"} /\ IsErrorD(ret.b)) =>
          C3_SentinelD(ret.b, ret.res)

\* a foreign error was wrapped beneath a sentinel that already had another inner
C3_Witness ==
    /\ rev = "val" /\ ret.op = "Wrap"
    /\ IsErrorD(ret.b) /\ ~IsErrorD(ret.a)
    /\ InnerD(ret.b) # NilRef
    /\ ret.res # ret.b

\* C4: a chain node whose base was synthesized from the foreign error f is
\* Equal to f in both argument orders; two foreign errors are Equal only
\* when they are the identical value.
C4_EqualForeignBase ==
    /\ rev = "ptr" =>
          \A i \in 1..Len(heap) :
              heap[i].err.k = "ext" =>
                  /\ EqualP(heap, Node(i), heap[i].err)
                  /\ EqualP(heap, heap[i].err, Node(i))
    /\ \A f \in ExtIds, g \in ExtIds :
          /\ rev = "ptr" => (EqualP(heap, Ext(f), Ext(g)) <=> f = g)
          /\ rev = "val" => (EqualD(Ext(f), Ext(g)) <=> f = g)

\* c is the inner error at some level of the chain e
RECURSIVE InChainP(_, _, _, _)
InChainP(h, e, c, fuel) ==
    /\ fuel > 0
    /\ e.k = "node"
    /\ \/ h[e.i].inner = c
       \/ InChainP(h, h[e.i].inner, c, fuel - 1)

RECURSIVE InChainD(_, _)
InChainD(e, c) ==
    /\ IsErrorD(e)
    /\ InnerD(e) # NilRef
    /\ \/ InnerD(e) = c
       \/ InChainD(InnerD(e), c)

\* C5: IsA(chain, c) is true for every error c, of this library or
\* foreign, that is the inner error at some level of the chain.
C5_IsAFindsInner ==
    /\ (rev = "ptr" /\ ret.op = "IsA" /\ ~ret.fatal
          /\ InChainP(heap, ret.a, ret.b, Fuel(heap))) => ret.res = TRUE
    /\ (rev = "val" /\ ret.op = "IsA" /\ InChainD(ret.a, ret.b)) => ret.res = TRUE

\* the innermost error of the chain e: the last node, or the foreign error
\* the last node wraps
RECURSIVE InnermostP(_, _, _)
InnermostP(h, e, fuel) ==
    IF fuel = 0 \/ h[e.i].inner = NilRef THEN e
    ELSE IF h[e.i].inner.k = "node" THEN InnermostP(h, h[e.i].inner, fuel - 1)
    ELSE h[e.i].inner

\* C6: Cause of a chain whose innermost wrapped error is the foreign error
\* f is f itself, not a new wrapper around it; Cause of a chain whose
\* innermost element is the chain node n is Equal to n.  (Cause of a
\* non-chain error has no code in the source: Cause is a method of *Error.)
C6_CauseIsInnermost ==
    (rev = "ptr" /\ ret.op = "Cause" /\ ~ret.fatal) =>
        LET n == InnermostP(heap, ret.a, Fuel(heap)) IN
        /\ n.k = "ext" => ret.res = n
        /\ n.k = "node" => EqualP(heap, ret.res, n)

\* the one text a call renders when nothing is annotated
TextOf(r) == CHOOSE t \in r.s : TRUE

\* C7: a.Append(b) renders as a.Message() + ". " + b.Error(); a.Appends(text)
\* and a.Appendf(format, ...) render as a.Message() + ". " + text; and
\* Wrap(inner, outer) renders as outer.Message() + ". " + inner.Error(),
\* the same as Append(outer, inner).
C7_AppendReceiverIsOuter ==
    [][/\ (rev = "ptr" /\ ret'.op = "Append"
             /\ ErrorP(heap', ret'.res, Fuel(heap')).ok) =>
              TextOf(ErrorP(heap', ret'.res, Fuel(heap'))) =
                  TextOf(MessageP(heap, ret'.a, Fuel(heap))) \o Sep
                      \o TextOf(RenderP(heap, ret'.b, Fuel(heap)))
       /\ (rev = "ptr" /\ ret'.op \in {"Appends", "Appendf"}
             /\ ErrorP(heap', ret'.res, Fuel(heap')).ok) =>
              TextOf(ErrorP(heap', ret'.res, Fuel(heap'))) =
                  TextOf(MessageP(heap, ret'.a, Fuel(heap))) \o Sep \o ret'.b.m
       /\ (rev = "ptr" /\ ret'.op = "Wrap"
             /\ ErrorP(heap', ret'.res, Fuel(heap')).ok) =>
              TextOf(ErrorP(heap', ret'.res, Fuel(heap'))) =
                  TextOf(MessageP(heap, ret'.a, Fuel(heap))) \o Sep
                      \o TextOf(RenderP(heap, ret'.b, Fuel(heap)))
       /\ (rev = "val" /\ ret'.op = "Wrap" /\ ret'.res # Panic) =>
              ErrorD(ret'.res) = MessageD(ret'.b) \o Sep \o ErrorD(ret'.a)]_vars

\* what Annotate calls have set on the node e and on the nodes beneath it,
\* the outermost node that carries a key giving its value
RECURSIVE AnnotatedBeneath(_, _, _, _)
AnnotatedBeneath(h, an, e, fuel) ==
    LET own == an[e.i]
        rest == IF fuel > 0 /\ h[e.i].inner.k = "node"
                THEN AnnotatedBeneath(h, an, h[e.i].inner, fuel - 1)
                ELSE <<>>
    IN [key \in (DOMAIN own) \cup (DOMAIN rest) |->
           IF key \in DOMAIN own THEN own[key] ELSE rest[key]]

\* C8: GetAnnotations on a node returns exactly the keys annotated on that
\* node or on a node beneath it, each with the value most recently set by
\* Annotate on the outermost node that carries the key.
C8_GetAnnotationsIsCurrent ==
    (rev = "ptr" /\ ret.op = "GetAnnotations" /\ ~ret.fatal) =>
        ret.res = AnnotatedBeneath(heap, annotated, ret.a, Fuel(heap))

\* C9: in the value revision Wrap, RWraps and RWrapf panic, and return no
\* error, when the outer error is not a chain node; with a chain-node outer
\* they do not panic and return a chain whose outer message is outer's.
C9_WrapPanicsOnForeignOuter ==
    (rev = "val" /\ ret.op \in {"Wrap", "RWraps", "RWrapf"}) =>
        IF IsErrorD(ret.b)
        THEN /\ ret.res # Panic
             /\ IsErrorD(ret.res)
             /\ MessageD(ret.res) = MessageD(ret.b)
             /\ ret.res \in held
             /\ ret.op = "Wrap" => InnerD(ret.res) = ret.a
        ELSE /\ ret.res = Panic
             /\ Panic \notin held

\* Wrap was called with a foreign outer error and panicked
C9_Witness ==
    /\ rev = "val" /\ ret.op = "Wrap"
    /\ ~IsErrorD(ret.b)
    /\ ret.res = Panic

\* the entry of key in the map of the set (nil when there is none)
Stored(s, key) == IF ~s.nil /\ key \in DOMAIN s.kv THEN s.kv[key] ELSE NilRef

\* C10: ErrorSet is a last-write-wins map: the body of Add(k, err) leaves
\* k mapped to err and every other key as it was, no other step changes the
\* map, and Get(k) returns what k is then mapped to (nil when nothing is,
\* also while the map is not allocated).
C10_LastWriteWins ==
    [][\A t \in Threads :
          LET adds == pc[t] = "body" /\ pc'[t] = "unlock" /\ call[t].op = "Add"
              gets == pc[t] = "body" /\ pc'[t] = "unlock" /\ call[t].op = "Get"
          IN /\ adds => /\ Stored(set', call[t].key) = call[t].err
                        /\ \A k \in SetKeys \ {call[t].key} : Stored(set', k) = Stored(set, k)
             /\ gets => /\ out'[t].op = "Get"
                        /\ out'[t].res = Stored(set, call[t].key)
             /\ (\A u \in Threads :
                    ~(pc[u] = "body" /\ pc'[u] = "unlock" /\ call[u].op = "Add")) =>
                    \A k \in SetKeys : Stored(set', k) = Stored(set, k)]_vars

\* a Get returned the error of the second Add of its key
C10_Witness ==
    \E t \in Threads :
        /\ pc[t] = "unlock" /\ out[t].op = "Get"
        /\ out[t].res = Ext(3)
        /\ \E u \in Threads \ {t} : out[u].op = "Get" /\ out[u].key = out[t].key
                                    /\ out[u].res = Ext(1)

\* C11: concurrent Adds with pairwise distinct keys lose no update: when
\* every thread has returned from its Add, GetAll of the set is exactly the
\* keys added, each with the error added, and a GetAll called then returns it.
C11_NoLostUpdate ==
    /\ (\A t \in Threads : out[t].op = "Add" /\ pc[t] = "idle") =>
          SetGetAll(set) = [k \in {out[u].key : u \in Threads} |->
                               out[CHOOSE u \in Threads : out[u].key = k].err]
    /\ \A t \in Threads : out[t].op = "GetAll" =>
          /\ out[t].res = SetGetAll(set)
          /\ Cardinality(DOMAIN out[t].res) = Cardinality(Threads)
          /\ \A u \in Threads \ {t} :
                out[u].key \in DOMAIN out[t].res /\ out[t].res[out[u].key] = out[u].err

\* both Adds returned, one of them having waited for the lock while the
\* other allocated the map, and a GetAll returned both entries
C11_Witness ==
    \E t \in Threads :
        /\ out[t].op = "GetAll" /\ pc[t] = "idle"
        /\ DOMAIN out[t].res = SetKeys
        /\ \E u \in Threads \ {t} : out[u].op = "Add" /\ out[t].res[out[u].key] = out[u].err

\* the entries key + ": " + message of the keys D, joined by ". ", in every
\* order
RECURSIVE Joined(_, _)
Joined(kv, D) ==
    IF D = {} THEN {<<>>}
    ELSE UNION {{<<str>> \o KvSep \o SetErrText(kv[str])
                    \o (IF D = {str} THEN <<>> ELSE Sep \o rest) :
                    rest \in Joined(kv, D \ {str})} : str \in D}

\* C12: Error() of an ErrorSet returns, for some order of the entries, the
\* strings key + ": " + message joined by ". ", every message in full and
\* nothing after the last one; for an empty set it returns "".
C12_SetErrorRendersInFull ==
    [][\A t \in Threads :
          (pc[t] = "body" /\ pc'[t] = "unlock" /\ call[t].op = "Error") =>
              /\ out'[t].op = "Error"
              /\ out'[t].res \in (IF set.nil THEN {<<>>} ELSE Joined(set.kv, DOMAIN set.kv))]_vars

\* C13: ErrorSet never deadlocks: every call a thread started returns with
\* the lock released, whatever errors are stored, the set itself included.
C13_NoDeadlock ==
    \A t \in Threads : (pc[t] # "idle") ~> (pc[t] = "idle" /\ mu # t)

ReadOpsP == {"Error", "GetAnnotations", "IsA", "Equal", "Cause", "Inner", "Base", "Message"}

\* C14: a call of Error, GetAnnotations, IsA, Equal, Cause, Inner, Base or
\* Message leaves the message, the inner and the own annotation map of every
\* node as they were.
C14_ReadsArePure ==
    [][(rev = "ptr" /\ ret'.op \in ReadOpsP) =>
          /\ Len(heap') = Len(heap)
          /\ \A i \in 1..Len(heap) :
                /\ heap'[i].err = heap[i].err
                /\ heap'[i].inner = heap[i].inner
                /\ heap'[i].anno = heap[i].anno]_vars

\* following inner from r leads to the node n within fuel steps
RECURSIVE Descends(_, _, _, _)
Descends(h, r, n, fuel) ==
    IF r.k # "node" \/ fuel = 0 THEN FALSE
    ELSE r = n \/ Descends(h, h[r.i].inner, n, fuel - 1)

\* C15: after any sequence of New, Wrap, Wraps, Wrapf, Append, Appends and
\* Appendf calls no node is reachable from itself by following inner, and
\* Error, Cause, IsA and GetAnnotations return on every node.
C15_ChainsAcyclic ==
    rev = "ptr" =>
        \A i \in 1..Len(heap) :
            /\ ~Descends(heap, heap[i].inner, Node(i), Len(heap))
            /\ ErrorP(heap, Node(i), Fuel(heap)).ok
            /\ CauseP(heap, Node(i), Fuel(heap)).ok
            /\ GetAnnotationsP(heap, Node(i), Fuel(heap)).ok
            /\ IsAP(heap, Node(i), Ext(1), Fuel(heap)).ok

\* C16: two calls of Error() on the same node with no other call between
\* them return the same string, also when the node or its inner nodes carry
\* two or more annotations.
C16_ErrorIsDeterministic ==
    [][(/\ rev = "ptr"
        /\ ret.op = "Error" /\ ~ret.fatal
        /\ ret'.op = "Error" /\ ~ret'.fatal
        /\ ret'.a = ret.a) => ret'.res = ret.res]_vars

====
